---- MODULE Spec2Model ----
(***************************************************************************)
(* The cursor-driven page layout engine of EasyPDF (src/src/index.js,      *)
(* the class that starts at line 122).                                     *)
(*                                                                         *)
(* Lengths are JavaScript numbers in millimetres in the code; here they    *)
(* are integers in tenths of a millimetre (Mm(1) = 10), which represents   *)
(* 8.8, 0.5 and fontSize * 0.55 for even font sizes exactly.               *)
(*                                                                         *)
(* jsPDF is the collaborator: its page list, selected page, text          *)
(* measurement and line splitter are modelled by what the layout code      *)
(* reads from them.                                                        *)
(***************************************************************************)
EXTENDS Integers, Sequences, FiniteSets, TLC

VARIABLES
    pageWidth,       \* #pageWidth
    pageHeight,      \* #pageHeight
    pagePaddingX,    \* #pagePaddingX
    pagePaddingY,    \* #pagePaddingY
    fontSize,        \* #fontSize (pt)
    pageIndex,       \* #pageIndex
    writeX,          \* #writeX
    writeY,          \* #writeY
    lastLineHeight,  \* #lastLineHeight
    pdfPages,        \* jsPDF: number of pages of the document
    pdfPage,         \* jsPDF: the page selected for drawing
    last,            \* history: the last call: the method, whether the cursor was at the left
                     \* margin before it, the pages it added, the elements it drew, its result,
                     \* the results of its pagination checks (whether the check appended a
                     \* page, by how much it stepped pageIndex, the value it evaluated to)
                     \* (and, in the scenario on the default document and in the text-only
                     \* specification, its inputs and the cursor before it)
    hist             \* history: what kind of calls were made since construction

vars == <<pageWidth, pageHeight, pagePaddingX, pagePaddingY, fontSize, pageIndex,
          writeX, writeY, lastLineHeight, pdfPages, pdfPage, last, hist>>

doc == <<pageWidth, pageHeight, pagePaddingX, pagePaddingY, fontSize>>

\* Millimetres to the model's unit.
Mm(x) == x * 10

\* The largest page index the model explores.
MaxPages == 3

Undefined == "undefined"

NoOptions == [k \in {} |-> 0]

Min(a, b) == IF a < b THEN a ELSE b

-----------------------------------------------------------------------------
(* Getters and private helpers *)

clientWidth == pageWidth - pagePaddingX * 2

clientHeight == pageHeight - pagePaddingY * 2

\* fontSize * 0.55 in tenths of a millimetre (fontSize even).
getLineHeight(fs) == (fs * 55) \div 10

\* The cursor the operations thread through: the private fields, jsPDF's pages,
\* and the log of what the call did so far.
Cursor == [writeX |-> writeX, writeY |-> writeY, pageIndex |-> pageIndex,
           lastLineHeight |-> lastLineHeight, pdfPages |-> pdfPages, pdfPage |-> pdfPage,
           checks |-> <<>>, draws |-> <<>>, breaks |-> 0, texts |-> <<>>, handed |-> <<>>]

\* What a call records of the cursor: the private fields and jsPDF's pages.
Pos(s) == [writeX |-> s.writeX, writeY |-> s.writeY, pageIndex |-> s.pageIndex,
           lastLineHeight |-> s.lastLineHeight, pdfPages |-> s.pdfPages, pdfPage |-> s.pdfPage]

\* Log of one #checkWriteY(height) call: the cursor before and after it, and the
\* value the call evaluates to ("undefined", "true" or "false").
Checked(s, t, height, ret) ==
    [t EXCEPT !.checks = Append(@, [h |-> height, before |-> Pos(s), after |-> Pos(t),
                                    ret |-> ret])]

getTextWriteY(s, fs) == s.writeY + fs * 4

checkWriteY_NoReset(s, height) ==
    IF s.writeY + height > pageHeight - pagePaddingY
    THEN Checked(s, [s EXCEPT !.pdfPages = @ + 1, !.pageIndex = @ + 1,
                              !.pdfPage = s.pageIndex + 1], height, Undefined)
    ELSE Checked(s, s, height, Undefined)

checkWriteY_WholePage(s, height) ==
    IF s.writeY + height > pageHeight
    THEN Checked(s, [s EXCEPT !.pdfPages = @ + 1, !.pageIndex = @ + 1,
                              !.pdfPage = s.pageIndex + 1, !.writeY = pagePaddingY],
                 height, Undefined)
    ELSE Checked(s, s, height, Undefined)

checkWriteY_PostIncrement(s, height) ==
    IF s.writeY + height > pageHeight - pagePaddingY
    THEN Checked(s, [s EXCEPT !.pdfPages = @ + 1, !.pageIndex = @ + 1,
                              !.pdfPage = s.pageIndex, !.writeY = pagePaddingY],
                 height, Undefined)
    ELSE Checked(s, s, height, Undefined)

checkWriteY_ReturnsFit(s, height) ==
    IF s.writeY + height > pageHeight - pagePaddingY
    THEN Checked(s, [s EXCEPT !.pdfPages = @ + 1, !.pageIndex = @ + 1,
                              !.pdfPage = s.pageIndex + 1, !.writeY = pagePaddingY],
                 height, "false")
    ELSE Checked(s, s, height, "true")

\* The method has no return statement: a call evaluates to undefined.
checkWriteY(s, height) ==
    IF s.writeY + height > pageHeight - pagePaddingY
    THEN Checked(s, [s EXCEPT !.pdfPages = @ + 1,             \* #pdf.addPage()
                              !.pageIndex = @ + 1,            \* ++this.#pageIndex
                              !.pdfPage = s.pageIndex + 1,    \* #pdf.setPage(...)
                              !.writeY = pagePaddingY], height, Undefined)
    ELSE Checked(s, s, height, Undefined)

\* One drawing call of the collaborator (text, line, addImage), or the blank of
\* addSpace: where it is put, the element's height, and the cursor at that moment.
Draw(s, kind, x, y, w, h) ==
    [s EXCEPT !.draws = Append(@, [kind |-> kind, x |-> x, y |-> y, w |-> w, h |-> h,
                                   top |-> s.writeY, page |-> s.pdfPage,
                                   pageIndex |-> s.pageIndex,
                                   nchecks |-> Len(s.checks)])]

\* Log of one #pdf.text(text, x, y) call: the string drawn.
Text(s, text) == [s EXCEPT !.texts = Append(@, text)]

\* Log of one #pdf.splitTextToSize(text, maxWidth) call: the string handed over.
Handed(s, text) == [s EXCEPT !.handed = Append(@, text)]

lineBreak_NoAdvance(s) ==
    IF s.writeX # pagePaddingX
    THEN [s EXCEPT !.writeX = pagePaddingX, !.breaks = @ + 1]
    ELSE s

lineBreak_Always(s) ==
    [s EXCEPT !.writeX = pagePaddingX, !.writeY = @ + s.lastLineHeight, !.breaks = @ + 1]

\* if (this.#writeX !== this.#pagePaddingX) { writeX = pagePaddingX; writeY += lastLineHeight }
lineBreak(s) ==
    IF s.writeX # pagePaddingX
    THEN [s EXCEPT !.writeX = pagePaddingX, !.writeY = @ + s.lastLineHeight, !.breaks = @ + 1]
    ELSE s

-----------------------------------------------------------------------------
(* jsPDF text measurement: a text is a sequence of characters; a character's *)
(* width is proportional to the font size set by setFontSize.                *)

\* The width of a character in twentieths of a millimetre per point of font size:
\* "m" is 4.8 mm wide at 16 pt, any other character half of that.
CharUnit(c) == IF c = "m" THEN 6 ELSE 3

RECURSIVE SumUnits(_)
SumUnits(text) == IF text = <<>> THEN 0 ELSE CharUnit(Head(text)) + SumUnits(Tail(text))

getTextWidth(text, fs) == (fs * SumUnits(text)) \div 2

\* text.split(" ")
RECURSIVE splitWords(_, _)
splitWords(text, cur) ==
    IF text = <<>> THEN <<cur>>
    ELSE IF Head(text) = " " THEN <<cur>> \o splitWords(Tail(text), <<>>)
    ELSE splitWords(Tail(text), Append(cur, Head(text)))

\* words.join(" ")
RECURSIVE joinWords(_)
joinWords(ws) ==
    IF ws = <<>> THEN <<>>
    ELSE IF Len(ws) = 1 THEN ws[1]
    ELSE ws[1] \o <<" ">> \o joinWords(Tail(ws))

\* jsPDF splitLongWord, first part: the number of leading characters that fit
\* on the hanging line (strictly below firstLineMaxLen).
RECURSIVE hangLen(_, _, _, _, _)
hangLen(word, i, workingLen, firstLineMaxLen, fs) ==
    IF i < Len(word) /\ workingLen + getTextWidth(<<word[i + 1]>>, fs) < firstLineMaxLen
    THEN hangLen(word, i + 1, workingLen + getTextWidth(<<word[i + 1]>>, fs), firstLineMaxLen, fs)
    ELSE i

\* jsPDF splitLongWord, second part: the rest cut into pieces of at most maxLen.
RECURSIVE chopWord(_, _, _, _, _)
chopWord(word, piece, workingLen, maxLen, fs) ==
    IF word = <<>> THEN (IF piece = <<>> THEN <<>> ELSE <<piece>>)
    ELSE LET w == getTextWidth(<<Head(word)>>, fs) IN
         IF workingLen + w > maxLen
         THEN <<piece>> \o chopWord(Tail(word), <<Head(word)>>, w, maxLen, fs)
         ELSE chopWord(Tail(word), Append(piece, Head(word)), workingLen + w, maxLen, fs)

splitLongWord(word, firstLineMaxLen, maxLen, fs) ==
    LET i == hangLen(word, 0, 0, firstLineMaxLen, fs)
    IN <<SubSeq(word, 1, i)>> \o chopWord(SubSeq(word, i + 1, Len(word)), <<>>, 0, maxLen, fs)

\* jsPDF splitParagraphIntoLines: greedy word wrap; a word wider than a line is
\* chopped. lines is the list of lines (each a list of words), the last one open.
RECURSIVE wrapWords(_, _, _, _, _, _)
wrapWords(words, lines, lineLength, sepLength, maxLen, fs) ==
    IF words = <<>> THEN lines
    ELSE LET word == Head(words)
             wordLength == getTextWidth(word, fs)
             n == Len(lines)
         IN IF lineLength + sepLength + wordLength > maxLen
            THEN IF wordLength > maxLen
                 THEN LET tmp == splitLongWord(word, maxLen - (lineLength + sepLength), maxLen, fs)
                          k == Len(tmp)
                          hung == [lines EXCEPT ![n] = Append(@, tmp[1])]
                          middle == [j \in 1..(k - 2) |-> <<tmp[j + 1]>>]
                      IN wrapWords(Tail(words), hung \o middle \o << <<tmp[k]>> >>,
                                   getTextWidth(tmp[k], fs), getTextWidth(<<" ">>, fs), maxLen, fs)
                 ELSE wrapWords(Tail(words), Append(lines, <<word>>),
                                wordLength, getTextWidth(<<" ">>, fs), maxLen, fs)
            ELSE wrapWords(Tail(words), [lines EXCEPT ![n] = Append(@, word)],
                           lineLength + sepLength + wordLength, getTextWidth(<<" ">>, fs), maxLen, fs)

\* #pdf.splitTextToSize(text, maxWidth) at the font size set by setFontSize.
splitTextToSize(text, maxWidth, fs) ==
    LET lines == wrapWords(splitWords(text, <<>>), << <<>> >>, 0, 0, maxWidth, fs)
    IN [j \in 1..Len(lines) |-> joinWords(lines[j])]

-----------------------------------------------------------------------------
(* The public operations, as functions of the cursor *)

\* { ...defaults, ...options }: an option the caller leaves out takes the default.
Merge(defaults, options) ==
    [k \in DOMAIN defaults \cup DOMAIN options |->
        IF k \in DOMAIN options THEN options[k] ELSE defaults[k]]

RECURSIVE firstLineLen(_, _, _, _), firstLineLen_TakesOverflow(_, _, _, _)
firstLineLen_TakesOverflow(text, n, remainWidth, fs) ==
    IF n < Len(text) /\ ~(getTextWidth(SubSeq(text, 1, n), fs) > remainWidth)
    THEN firstLineLen_TakesOverflow(text, n + 1, remainWidth, fs)
    ELSE n

\* for (const c of text) { width = getTextWidth(firstLine + c); if (width > remainWidth) break; ... }
\* The number of characters of the first-line fragment.
firstLineLen(text, n, remainWidth, fs) ==
    IF n < Len(text) /\ ~(getTextWidth(SubSeq(text, 1, n + 1), fs) > remainWidth)
    THEN firstLineLen(text, n + 1, remainWidth, fs)
    ELSE n

\* for (index = 0; index < splitText.length; index++) { ... }
RECURSIVE wrapLoop(_, _, _, _), wrapLoop_NoLastX(_, _, _, _)
wrapLoop_NoLastX(s, splitText, index, fs) ==
    IF index > Len(splitText) THEN s
    ELSE LET text == splitText[index]
             lineHeight == getLineHeight(fs)
             s1 == [s EXCEPT !.writeY = @ + lineHeight, !.writeX = pagePaddingX]
             s2 == checkWriteY(s1, lineHeight)
             s3 == Text(Draw(s2, "text", s2.writeX, getTextWriteY(s2, fs),
                             getTextWidth(text, fs), lineHeight), text)
         IN wrapLoop_NoLastX(s3, splitText, index + 1, fs)

wrapLoop(s, splitText, index, fs) ==
    IF index > Len(splitText) THEN s
    ELSE LET text == splitText[index]
             lineHeight == getLineHeight(fs)
             s1 == [s EXCEPT !.writeY = @ + lineHeight, !.writeX = pagePaddingX]
             s2 == checkWriteY(s1, lineHeight)
             s3 == Text(Draw(s2, "text", s2.writeX, getTextWriteY(s2, fs),
                             getTextWidth(text, fs), lineHeight), text)
             s4 == IF index = Len(splitText)
                   THEN [s3 EXCEPT !.writeX = pagePaddingX + getTextWidth(text, fs)]
                   ELSE s3
         IN wrapLoop(s4, splitText, index + 1, fs)

endOfText_NoArticleBreak(s, lineHeight, right, article) ==
    LET x == s.writeX + right
    IN IF x > clientWidth + Mm(s.pageIndex)
       THEN [s EXCEPT !.writeX = pagePaddingX, !.writeY = @ + lineHeight]
       ELSE [s EXCEPT !.writeX = x]

\* if (options.article) { break the line } else { add the right margin; wrap past the threshold }
endOfText(s, lineHeight, right, article) ==
    IF article
    THEN [s EXCEPT !.writeX = pagePaddingX, !.writeY = @ + lineHeight]
    ELSE LET x == s.writeX + right
         IN IF x > clientWidth + Mm(s.pageIndex)
            THEN [s EXCEPT !.writeX = pagePaddingX, !.writeY = @ + lineHeight]
            ELSE [s EXCEPT !.writeX = x]

addText_SkipsEmpty(s, text, options) ==
    LET o == Merge([fontSize |-> fontSize, left |-> 0, right |-> 0, article |-> FALSE], options)
        fs == o.fontSize
        lineHeight == getLineHeight(fs)
        s1 == IF o.article THEN lineBreak(s) ELSE s
        remainWidth == clientWidth - s1.writeX - o.left - pagePaddingX
        n == firstLineLen(text, 0, remainWidth, fs)
        firstLine == SubSeq(text, 1, n)
        firstWidth == IF n = 0 THEN 0 ELSE getTextWidth(firstLine, fs)
        s2 == IF text = <<>> THEN s1 ELSE checkWriteY(s1, lineHeight)
        s3 == IF text = <<>> THEN s2
              ELSE Text(Draw(s2, "text", s2.writeX, getTextWriteY(s2, fs), firstWidth, lineHeight),
                        firstLine)
        s4 == [s3 EXCEPT !.writeX = @ + firstWidth]
        rest == SubSeq(text, n + 1, Len(text))
        s5 == IF n # Len(text)
              THEN wrapLoop(Handed(s4, rest), splitTextToSize(rest, clientWidth, fs), 1, fs)
              ELSE s4
        s6 == endOfText(s5, lineHeight, o.right, o.article)
    IN [s6 EXCEPT !.lastLineHeight = lineHeight]

addText(s, text, options) ==
    LET o == Merge([fontSize |-> fontSize, left |-> 0, right |-> 0, article |-> FALSE], options)
        fs == o.fontSize
        left == o.left
        right == o.right
        article == o.article
        lineHeight == getLineHeight(fs)
        s1 == IF article THEN lineBreak(s) ELSE s
        remainWidth == clientWidth - s1.writeX - left - pagePaddingX
        n == firstLineLen(text, 0, remainWidth, fs)
        firstLine == SubSeq(text, 1, n)
        firstWidth == IF n = 0 THEN 0 ELSE getTextWidth(firstLine, fs)
        s2 == checkWriteY(s1, lineHeight)
        s3 == Text(Draw(s2, "text", s2.writeX, getTextWriteY(s2, fs), firstWidth, lineHeight),
                   firstLine)
        s4 == [s3 EXCEPT !.writeX = @ + firstWidth]
        rest == SubSeq(text, n + 1, Len(text))       \* text.slice(firstLine.length)
        s5 == IF n # Len(text)
              THEN wrapLoop(Handed(s4, rest), splitTextToSize(rest, clientWidth, fs), 1, fs)
              ELSE s4
        s6 == endOfText(s5, lineHeight, right, article)
    IN [s6 EXCEPT !.lastLineHeight = lineHeight]

\* The defaults of addLine: top 4, bottom 4, lineWidth 0.5.
LineDefaults == [top |-> Mm(4), bottom |-> Mm(4), lineWidth |-> 5]

addLine_NoBreak(s, options) ==
    LET o == Merge(LineDefaults, options)
        s2 == checkWriteY(s, o.top + o.lineWidth)
        s3 == Draw(s2, "line", pagePaddingX, s2.writeY + o.top,
                   pageWidth - pagePaddingX - pagePaddingX, o.top + o.lineWidth)
    IN [s3 EXCEPT !.writeY = @ + o.top + o.lineWidth + o.bottom]

addLine(s, options) ==
    LET o == Merge(LineDefaults, options)
        top == o.top
        bottom == o.bottom
        lineWidth == o.lineWidth
        s1 == lineBreak(s)
        s2 == checkWriteY(s1, top + lineWidth)
        s3 == Draw(s2, "line", pagePaddingX, s2.writeY + top,
                   pageWidth - pagePaddingX - pagePaddingX, top + lineWidth)
    IN [s3 EXCEPT !.writeY = @ + top + lineWidth + bottom]

\* height = (options.width * imgProperties.height) / imgProperties.width
autoHeight(width, img) == (width * img.height) \div img.width

\* options.height is 'auto' (the default) when the caller gives no number.
addImage(s, img, options) ==
    LET o == Merge([top |-> Mm(4), bottom |-> Mm(4), width |-> clientWidth], options)
        width == o.width
        height == IF "height" \in DOMAIN o THEN o.height ELSE autoHeight(width, img)
        s1 == lineBreak(s)
        s2 == [s1 EXCEPT !.writeX = (pageWidth - width) \div 2]
        s3 == checkWriteY(s2, height)
        s4 == Draw(s3, "image", s3.writeX, s3.writeY, width, height)
    IN [s4 EXCEPT !.writeX = pagePaddingX, !.writeY = @ + height]

addSpace_NoMargin(s, height) ==
    LET s2 == checkWriteY(s, height)
        s3 == Draw(s2, "space", s2.writeX, s2.writeY, 0, height)
    IN [s3 EXCEPT !.writeY = @ + height]

\* addSpace(height = 5)
addSpace(s, height) ==
    LET s1 == lineBreak(s)
        s2 == checkWriteY(s1, height)
        s3 == Draw(s2, "space", s2.writeX, s2.writeY, 0, height)
    IN [s3 EXCEPT !.writeY = @ + height, !.writeX = pagePaddingX]

-----------------------------------------------------------------------------
(* Construction *)

\* jsPDF page size in the unit "mm": of the format "a4", and of the custom
\* format [20, 22], which the model names.
PageSize(size) ==
    CASE size = "a4" -> <<Mm(210), Mm(297)>>
      [] size = "20x22" -> <<Mm(20), Mm(22)>>

\* constructor(options = {}): the defaults, overridden by the options given.
DefaultOptions == [size |-> "a4", fontSize |-> 16, pagePaddingX |-> Mm(10), pagePaddingY |-> Mm(10)]

\* The small documents the general specification constructs.
SmallDocs ==
    { [size |-> "20x22", fontSize |-> 16, pagePaddingX |-> Mm(2), pagePaddingY |-> Mm(2)] }

NoCall == [op |-> "new", atMargin |-> TRUE, added |-> 0, drawn |-> 0, ret |-> "this",
           guards |-> {}, call |-> NoOptions]

NoHistory == [onlyText |-> TRUE, onlyArticle |-> TRUE, calls |-> 0, textHeight |-> 0]

Construct(options) ==
    /\ pageWidth = PageSize(options.size)[1]
    /\ pageHeight = PageSize(options.size)[2]
    /\ pagePaddingX = options.pagePaddingX
    /\ pagePaddingY = options.pagePaddingY
    /\ fontSize = options.fontSize
    /\ pageIndex = 1
    /\ writeY = options.pagePaddingY
    /\ writeX = options.pagePaddingX
    /\ lastLineHeight = 0
    /\ pdfPages = 1
    /\ pdfPage = 1
    /\ last = NoCall
    /\ hist = NoHistory

Init == \E options \in SmallDocs : Construct(options)

InitA4 == Construct(DefaultOptions)

-----------------------------------------------------------------------------
(* The calls *)

RECURSIVE textHeights(_)
textHeights(draws) ==
    IF draws = <<>> THEN 0
    ELSE (IF Head(draws).kind = "text" THEN Head(draws).h ELSE 0) + textHeights(Tail(draws))

\* A call of a public method: the cursor it leaves, and the record of the call.
Call(op, isText, isArticle, t, ret, call) ==
    /\ writeX' = t.writeX
    /\ writeY' = t.writeY
    /\ pageIndex' = t.pageIndex
    /\ lastLineHeight' = t.lastLineHeight
    /\ pdfPages' = t.pdfPages
    /\ pdfPage' = t.pdfPage
    /\ last' = [op |-> op, atMargin |-> (writeX = pagePaddingX),
                added |-> t.pdfPages - pdfPages, drawn |-> Len(t.draws), ret |-> ret,
                guards |-> { [appended |-> t.checks[i].after.pdfPages > t.checks[i].before.pdfPages,
                              stepped |-> t.checks[i].after.pageIndex - t.checks[i].before.pageIndex,
                              ret |-> t.checks[i].ret] : i \in 1..Len(t.checks) },
                call |-> call]
    /\ hist' = LET text == hist.onlyText /\ isText
                   article == hist.onlyArticle /\ isArticle
               IN [onlyText |-> text,
                   onlyArticle |-> article,
                   calls |-> IF article THEN hist.calls + 1 ELSE 0,
                   textHeight |-> IF text
                                  THEN Min(hist.textHeight + textHeights(t.draws), clientHeight + 1)
                                  ELSE 0]
    /\ UNCHANGED doc

Texts == { <<>>, <<"m">>, <<"m", "m", " ", "i">>,
           <<"m", "m", " ", "m", "m", "m", "m", "m", "m", " ", "i">> }

TextOptions == { NoOptions, [fontSize |-> 8], [left |-> Mm(3), right |-> Mm(6)] }

AddText ==
    \E text \in Texts, options \in TextOptions :
        LET t == addText(Cursor, text, options)
        IN /\ t.pageIndex <= MaxPages
           /\ Call("addText", TRUE, FALSE, t, "this", NoOptions)

\* addArticle(text, options) { return this.addText(text, { ...options, article: true }) }
addArticle(s, text, options) == addText(s, text, Merge(options, [article |-> TRUE]))

AddArticle ==
    \E text \in Texts, options \in TextOptions :
        LET t == addArticle(Cursor, text, options)
        IN /\ t.pageIndex <= MaxPages
           /\ Call("addArticle", TRUE, TRUE, t, "this", NoOptions)

LineOptions == { NoOptions, [top |-> 0, lineWidth |-> Mm(1), bottom |-> Mm(1)] }

AddLine ==
    \E options \in LineOptions :
        LET t == addLine(Cursor, options)
        IN /\ t.pageIndex <= MaxPages
           /\ Call("addLine", FALSE, FALSE, t, "this", NoOptions)

Images == { [width |-> 200, height |-> 100], [width |-> 50, height |-> 100] }

ImageOptions == { NoOptions, [top |-> Mm(4), bottom |-> Mm(4), width |-> Mm(10), height |-> Mm(12)] }

\* addImage has no return statement.
AddImage ==
    \E img \in Images, options \in ImageOptions :
        LET t == addImage(Cursor, img, options)
        IN /\ t.pageIndex <= MaxPages
           /\ Call("addImage", FALSE, FALSE, t, Undefined, NoOptions)

Heights == { Mm(5), 0, Mm(30) }

AddSpace ==
    \E height \in Heights :
        LET t == addSpace(Cursor, height)
        IN /\ t.pageIndex <= MaxPages
           /\ Call("addSpace", FALSE, FALSE, t, "this", NoOptions)

\* save(filename) { this.#pdf.save(filename); return this }
Save ==
    LET t == Cursor
    IN /\ t.pageIndex <= MaxPages
       /\ Call("save", FALSE, FALSE, t, "this", NoOptions)

-----------------------------------------------------------------------------
(* The scenario on the default document: A4, 10 mm margins, font size 16 *)

ShortTexts == { <<"m">>, <<"m", "i">> }

\* A paragraph of one short line, written with the default options.
ShortArticle ==
    \E text \in ShortTexts :
        LET t == addArticle(Cursor, text, NoOptions)
        IN /\ t.pageIndex <= MaxPages
           /\ Call("addArticle", TRUE, TRUE, t, "this",
                   [text |-> text, options |-> NoOptions, before |-> Pos(Cursor)])

\* Images twice as wide as high, and square ones.
WideImages == { [width |-> 200, height |-> 100], [width |-> 64, height |-> 64] }

WideImageOptions == { NoOptions, [width |-> Mm(190)], [top |-> Mm(4), bottom |-> Mm(4)],
                      [width |-> Mm(100), top |-> 0, bottom |-> 0] }

WideImage ==
    \E img \in WideImages, options \in WideImageOptions :
        LET t == addImage(Cursor, img, options)
        IN /\ t.pageIndex <= MaxPages
           /\ Call("addImage", FALSE, FALSE, t, Undefined,
                   [img |-> img, options |-> options, before |-> Pos(Cursor)])

NextA4 == ShortArticle \/ WideImage

SpecA4 == InitA4 /\ [][NextA4]_vars

-----------------------------------------------------------------------------
(* Text only, on the small document: each call records its inputs and the cursor *)
(* it started from                                                              *)

\* The cursor of a recorded position, with an empty log.
At(pos) == [writeX |-> pos.writeX, writeY |-> pos.writeY, pageIndex |-> pos.pageIndex,
            lastLineHeight |-> pos.lastLineHeight, pdfPages |-> pos.pdfPages,
            pdfPage |-> pos.pdfPage,
            checks |-> <<>>, draws |-> <<>>, breaks |-> 0, texts |-> <<>>, handed |-> <<>>]

InlineText ==
    \E text \in Texts, options \in TextOptions :
        LET t == addText(Cursor, text, options)
        IN /\ t.pageIndex <= MaxPages
           /\ Call("addText", TRUE, FALSE, t, "this",
                   [text |-> text, options |-> options, before |-> Pos(Cursor)])

Article ==
    \E text \in Texts, options \in TextOptions :
        LET t == addArticle(Cursor, text, options)
        IN /\ t.pageIndex <= MaxPages
           /\ Call("addArticle", TRUE, TRUE, t, "this",
                   [text |-> text, options |-> Merge(options, [article |-> TRUE]),
                    before |-> Pos(Cursor)])

NextText == InlineText \/ Article

SpecText == Init /\ [][NextText]_vars

\* Text only, on the small document and on one with margins of 7.5 mm, wider than
\* its content (5 mm), and font size 8.
TextDocs ==
    SmallDocs \cup { [size |-> "20x22", fontSize |-> 8, pagePaddingX |-> 75, pagePaddingY |-> Mm(2)] }

InitDocs == \E options \in TextDocs : Construct(options)

SpecDocs == InitDocs /\ [][NextText]_vars

-----------------------------------------------------------------------------

Next == AddText \/ AddArticle \/ AddLine \/ AddImage \/ AddSpace \/ Save

Spec == Init /\ [][Next]_vars

-----------------------------------------------------------------------------
(* What each call would do from the current state, for every input of the model *)

TextCalls == { addText(Cursor, text, options) : text \in Texts, options \in TextOptions }

ArticleCalls == { addArticle(Cursor, text, options) : text \in Texts, options \in TextOptions }

LineCalls == { addLine(Cursor, options) : options \in LineOptions }

ImageCalls == { addImage(Cursor, img, options) : img \in Images, options \in ImageOptions }

SpaceCalls == { addSpace(Cursor, height) : height \in Heights }

AllCalls == TextCalls \cup ArticleCalls \cup LineCalls \cup ImageCalls \cup SpaceCalls

PageBottom == pageHeight - pagePaddingY

-----------------------------------------------------------------------------
(* C1 *)

\* C1: between calls, writeX is within [pagePaddingX, pageWidth - pagePaddingX].
C1_WriteXInRange == writeX >= pagePaddingX /\ writeX <= pageWidth - pagePaddingX

-----------------------------------------------------------------------------
(* C2 *)

\* The contract of one logged #checkWriteY(height) call.
GuardContract(c) ==
    /\ IF c.before.writeY + c.h > PageBottom
       THEN /\ c.after.pdfPages = c.before.pdfPages + 1
            /\ c.after.pageIndex = c.before.pageIndex + 1
            /\ c.after.pdfPage = c.after.pageIndex
            /\ c.after.writeY = pagePaddingY
       ELSE /\ c.after.pdfPages = c.before.pdfPages
            /\ c.after.pdfPage = c.before.pdfPage
            /\ c.after.pageIndex = c.before.pageIndex
            /\ c.after.writeY = c.before.writeY
    /\ c.after.writeX = c.before.writeX
    /\ c.after.lastLineHeight = c.before.lastLineHeight

\* C2: every pagination check made by any call, from any reachable cursor: when
\* writeY + height > pageHeight - pagePaddingY it appends exactly one page,
\* increments pageIndex by exactly 1, selects that page and sets writeY to
\* pagePaddingY; otherwise pageIndex and writeY are unchanged; writeX and
\* lastLineHeight are unchanged in both cases.
C2_PaginationGuard ==
    \A t \in AllCalls : \A i \in 1..Len(t.checks) : GuardContract(t.checks[i])

\* A call whose pagination check added a page has been made, and the cursor is on it.
C2_Witness == last.added = 1 /\ pageIndex = 2 /\ pdfPage = 2

-----------------------------------------------------------------------------
(* C3 *)

\* The j-th element a call puts on the page, and the check that precedes it.
ElementChecked(t, j) ==
    LET d == t.draws[j]
    IN /\ d.nchecks = j
       /\ LET c == t.checks[d.nchecks]
          IN /\ c.h = d.h
             /\ c.after.writeY = d.top
             /\ d.top <= PageBottom
             /\ (d.h <= clientHeight => d.top + d.h <= PageBottom)

\* C3: every visual element (text line, rule, image, blank space) of every call is
\* put on the page directly after a pagination check for its own height, with
\* writeY <= pageHeight - pagePaddingY after the check, and with
\* writeY + height <= pageHeight - pagePaddingY when the height is at most the
\* content height.
C3_CheckedBeforeDrawn ==
    \A t \in AllCalls : \A j \in 1..Len(t.draws) : ElementChecked(t, j)

\* A text call that wrapped into further lines and paginated on the way.
C3_Witness == last.op = "addText" /\ last.drawn >= 3 /\ last.added >= 1

-----------------------------------------------------------------------------
(* C4 *)

\* C4: addArticle(text), for any text, options and prior cursor, returns with
\* writeX = pagePaddingX.
C4_ArticleEndsAtMargin == \A t \in ArticleCalls : t.writeX = pagePaddingX

\* addArticle was called with the cursor away from the left margin.
C4_Witness == last.op = "addArticle" /\ ~last.atMargin /\ writeX = pagePaddingX

-----------------------------------------------------------------------------
(* C5 *)

\* The checks of a call that found the height not to fit below writeY.
Overflows(t) == { i \in 1..Len(t.checks) : t.checks[i].before.writeY + t.checks[i].h > PageBottom }

\* pageIndex is at least 1 and no addText call decreases it; each overflow of a
\* call adds exactly 1 to pageIndex and resets writeY to pagePaddingY.
PagesOfText ==
    /\ pageIndex >= 1
    /\ \A t \in TextCalls \cup ArticleCalls :
        /\ t.pageIndex >= pageIndex
        /\ t.pageIndex = pageIndex + Cardinality(Overflows(t))
        /\ \A i \in 1..Len(t.checks) :
              LET c == t.checks[i]
              IN IF i \in Overflows(t)
                 THEN c.after.pageIndex = c.before.pageIndex + 1 /\ c.after.writeY = pagePaddingY
                 ELSE c.after.pageIndex = c.before.pageIndex /\ c.after.writeY = c.before.writeY

-----------------------------------------------------------------------------
(* C6 *)

\* C6: on the default document (210 x 297 mm, 10 mm margins, font size 16), while
\* only one-line paragraphs have been written, fewer than 32 of them leave
\* pageIndex at 1, and the 32nd adds the one page: pageIndex = 2.
C6_ThirtyTwoLines ==
    hist.onlyArticle =>
        /\ getLineHeight(fontSize) = 88
        /\ clientHeight = Mm(277)
        /\ (hist.calls < 32 => pageIndex = 1)
        /\ (hist.calls = 32 => pageIndex = 2 /\ last.added = 1 /\ writeY = pagePaddingY + 88)

\* 32 one-line paragraphs were written and nothing else.
C6_Witness == hist.onlyArticle /\ hist.calls = 32 /\ pageIndex = 2

-----------------------------------------------------------------------------
(* C7 *)

\* C7: an image of automatic height is width * intrinsic height / intrinsic width
\* high (95 mm for a 2:1 image 190 mm wide), and, from the left margin and without
\* pagination, addImage has advanced writeY by that height plus the top and bottom
\* margins given in the options.
C7_ImageAdvance ==
    last.op = "addImage" =>
        LET img == last.call.img
            options == last.call.options
            before == last.call.before
            width == IF "width" \in DOMAIN options THEN options.width ELSE clientWidth
            height == IF "height" \in DOMAIN options THEN options.height
                      ELSE (width * img.height) \div img.width
            top == IF "top" \in DOMAIN options THEN options.top ELSE 0
            bottom == IF "bottom" \in DOMAIN options THEN options.bottom ELSE 0
        IN /\ (width = Mm(190) /\ img.width = 2 * img.height /\ ~("height" \in DOMAIN options)
                  => height = Mm(95))
           /\ (before.writeX = pagePaddingX /\ pageIndex = before.pageIndex
                  => writeY = before.writeY + height + top + bottom)

-----------------------------------------------------------------------------
(* C8 *)

\* C8: addLine returns with writeX = pagePaddingX: from the left margin without a
\* line break (writeX unchanged), from anywhere else after exactly one forced line
\* break.
C8_LineEndsAtMargin ==
    \A options \in LineOptions :
        LET t == addLine(Cursor, options)
        IN /\ t.writeX = pagePaddingX
           /\ (writeX = pagePaddingX => t.breaks = 0 /\ t.writeX = writeX)
           /\ (writeX # pagePaddingX => t.breaks = 1
                                        /\ t.checks[1].before.writeY = writeY + lastLineHeight)
           /\ \A i \in 1..Len(t.checks) : t.checks[i].before.writeX = pagePaddingX

\* addLine was called with the cursor away from the left margin.
C8_Witness == last.op = "addLine" /\ ~last.atMargin /\ writeX = pagePaddingX

-----------------------------------------------------------------------------
(* C9 *)

\* C9: addSpace(h) returns with writeX = pagePaddingX, a second addSpace leaves
\* writeX as it is, and from the left margin without pagination writeY advances
\* by exactly h.
C9_SpaceEndsAtMargin ==
    \A h \in Heights :
        LET t == addSpace(Cursor, h)
        IN /\ t.writeX = pagePaddingX
           /\ \A h2 \in Heights : addSpace(t, h2).writeX = t.writeX
           /\ (writeX = pagePaddingX /\ t.pageIndex = pageIndex => t.writeY = writeY + h)

\* addSpace was called with the cursor away from the left margin and did not paginate.
C9_Witness == last.op = "addSpace" /\ ~last.atMargin /\ last.added = 0 /\ writeX = pagePaddingX

-----------------------------------------------------------------------------
(* C10 *)

\* top + lineWidth + bottom of addLine's defaults: 8.5 mm.
DefaultRule == LineDefaults.top + LineDefaults.lineWidth + LineDefaults.bottom

\* C10 as claimed: directly after addText, addLine() without pagination advances
\* writeY by exactly 8.5 mm (85 tenths).
C10_Original ==
    last.op \in {"addText", "addArticle"} =>
        LET t == addLine(Cursor, NoOptions)
        IN t.pageIndex = pageIndex => t.writeY = writeY + 85

\* C10, amended: directly after addText, addLine() without pagination advances
\* writeY by exactly 8.5 mm when the text left the cursor at the left margin, and
\* by lastLineHeight + 8.5 mm (the forced line break) when it left it inside a line.
C10_RuleAfterText ==
    last.op \in {"addText", "addArticle"} =>
        LET t == addLine(Cursor, NoOptions)
        IN /\ DefaultRule = 85
           /\ t.pageIndex = pageIndex =>
                 t.writeY = writeY + DefaultRule + (IF writeX = pagePaddingX THEN 0 ELSE lastLineHeight)

\* An inline text left the cursor inside a line, and the rule fits on the page.
C10_Witness ==
    /\ last.op = "addText" /\ writeX # pagePaddingX /\ lastLineHeight > 0
    /\ LET t == addLine(Cursor, NoOptions)
       IN t.pageIndex = pageIndex /\ t.writeY = writeY + lastLineHeight + 85

-----------------------------------------------------------------------------
(* C11 *)

\* Whether a logged #checkWriteY call appended a page.
Appended(c) == c.after.pdfPages = c.before.pdfPages + 1

\* C11 as claimed: the result of every pagination check the last call made is true
\* exactly when it appended a page and false exactly when it did not.
C11_Original ==
    \A g \in last.guards :
        /\ (g.ret = "true") = g.appended
        /\ (g.ret = "false") = ~g.appended

\* C11, amended: every pagination check the last call made evaluates to undefined,
\* whether it appended a page or not; that it appended a page shows in pageIndex
\* alone, which it has incremented exactly when it appended a page.
C11_GuardReturnsNothing ==
    \A g \in last.guards :
        /\ g.ret = Undefined
        /\ g.appended = (g.stepped = 1)
        /\ ~g.appended = (g.stepped = 0)

\* A text call was made of whose pagination checks one appended a page and one did not.
C11_Witness ==
    /\ last.op = "addText"
    /\ \E g \in last.guards : g.appended
    /\ \E g \in last.guards : ~g.appended

-----------------------------------------------------------------------------
(* C12 *)

\* C12: every call of a public method (addText, addArticle, addLine, addImage,
\* addSpace, save) has returned the document itself, so that a further call can be
\* chained on its result.
C12_ReturnsThis ==
    last.op \in {"addText", "addArticle", "addLine", "addImage", "addSpace", "save"}
        => last.ret = "this"

-----------------------------------------------------------------------------
(* The last text call of the text-only specification, done again from the cursor *)
(* and the inputs it recorded                                                   *)

IsText == last.op \in {"addText", "addArticle"}

LastText == addText(At(last.call.before), last.call.text, last.call.options)

LastOptions ==
    Merge([fontSize |-> fontSize, left |-> 0, right |-> 0, article |-> FALSE], last.call.options)

\* The strings of a list, one after the other without separators.
RECURSIVE Concat(_)
Concat(strings) == IF strings = <<>> THEN <<>> ELSE Head(strings) \o Concat(Tail(strings))

-----------------------------------------------------------------------------
(* C13 *)

\* The pieces a text call rendered account for the characters of its text: the
\* first-line fragment is a prefix that no longer prefix fitting the remaining
\* width extends (and fits it itself, if mustFit or if it is not empty), the
\* splitter is handed exactly the rest, and if the wrapped lines put together are
\* the string handed to the splitter, fragment and lines put together are the text.
CharacterAccounting(mustFit) ==
    LET t == LastText
        text == last.call.text
        fs == LastOptions.fontSize
        remainWidth == clientWidth - t.draws[1].x - LastOptions.left - pagePaddingX
        firstLine == t.texts[1]
        n == Len(firstLine)
    IN /\ n <= Len(text) /\ firstLine = SubSeq(text, 1, n)
       /\ (mustFit \/ n > 0) => getTextWidth(firstLine, fs) <= remainWidth
       /\ \A k \in (n + 1)..Len(text) : getTextWidth(SubSeq(text, 1, k), fs) > remainWidth
       /\ IF n = Len(text)
          THEN t.handed = <<>> /\ t.texts = <<firstLine>>
          ELSE /\ t.handed = <<SubSeq(text, n + 1, Len(text))>>
               /\ Len(t.texts) >= 2
               /\ (Concat(Tail(t.texts)) = t.handed[1] => Concat(t.texts) = text)

\* C13 as claimed: in addText the first-line fragment is the longest prefix of the
\* text whose measured width is <= the remaining width, the splitter is handed
\* exactly the remaining suffix, and fragment and wrapped lines put together
\* reconstruct the text when the splitter drops no characters.
C13_Original == IsText => CharacterAccounting(TRUE)

\* C13, amended: as claimed when the remaining width is not negative; when it is
\* negative the first-line fragment is empty (no prefix has a width <= the
\* remaining width) and the splitter is handed the whole text.
C13_CharacterAccounting == IsText => CharacterAccounting(FALSE)

\* An inline text of which a part fitted the line and the rest was wrapped, nothing
\* dropped.
C13_Witness ==
    /\ last.op = "addText"
    /\ LET t == LastText
       IN /\ Len(t.texts[1]) > 0
          /\ Len(t.texts) >= 2
          /\ Concat(t.texts) = last.call.text

-----------------------------------------------------------------------------
(* C14 *)

\* A call that starts with the forced line break: it breaks the line once exactly
\* when the cursor is not at the left margin, and its first pagination check finds
\* writeY advanced by lastLineHeight then, and not advanced otherwise.
BreaksFirst(t) ==
    /\ t.breaks = (IF writeX # pagePaddingX THEN 1 ELSE 0)
    /\ t.checks[1].before.writeY = writeY + (IF writeX # pagePaddingX THEN lastLineHeight ELSE 0)
    /\ t.checks[1].before.lastLineHeight = lastLineHeight

\* C14: addLine, addImage, addSpace and article-mode addText force a line break
\* exactly when writeX # pagePaddingX at call entry: writeX becomes pagePaddingX and
\* writeY advances by lastLineHeight exactly once; at the left margin writeY is not
\* advanced before the element. Inline addText never forces one. lastLineHeight is
\* the line height fontSize * 0.55 of the most recent addText: every addText
\* records it and no other call changes it.
C14_ForcedLineBreak ==
    /\ \A t \in LineCalls \cup SpaceCalls :
           /\ BreaksFirst(t) /\ t.checks[1].before.writeX = pagePaddingX
           /\ t.lastLineHeight = lastLineHeight
    /\ \A t \in ImageCalls :
           /\ BreaksFirst(t) /\ t.writeX = pagePaddingX
           /\ t.lastLineHeight = lastLineHeight
    /\ \A text \in Texts, options \in TextOptions :
           LET fs == IF "fontSize" \in DOMAIN options THEN options.fontSize ELSE fontSize
               inline == addText(Cursor, text, options)
               article == addArticle(Cursor, text, options)
           IN /\ BreaksFirst(article) /\ article.checks[1].before.writeX = pagePaddingX
              /\ inline.breaks = 0 /\ inline.checks[1].before = Pos(Cursor)
              /\ inline.lastLineHeight = getLineHeight(fs)
              /\ article.lastLineHeight = getLineHeight(fs)
    /\ (writeX # pagePaddingX => lastLineHeight > 0)

\* addImage was called with the cursor inside a line of text and broke the line.
C14_Witness ==
    /\ last.op = "addImage" /\ ~last.atMargin /\ last.added = 0
    /\ writeX = pagePaddingX /\ lastLineHeight > 0

-----------------------------------------------------------------------------
(* C15 *)

\* Where the last piece of text a call drew ends: the x to which the call adds the
\* right margin, and the writeY of that line.
EndOfPieces(t) ==
    LET d == t.draws[Len(t.draws)]
    IN [x |-> d.x + d.w, y |-> d.top]

\* C15: after an inline addText writeX is the end of the text plus the right
\* margin, unless that exceeds clientWidth, and exactly then the cursor is wrapped:
\* writeX = pagePaddingX and writeY advanced by lineHeight. The decision is a
\* function of that x and of clientWidth alone, whichever page is current.
C15_WrapThreshold ==
    last.op = "addText" =>
        LET t == LastText
            end == EndOfPieces(t)
            x == end.x + LastOptions.right
            lineHeight == getLineHeight(LastOptions.fontSize)
        IN IF x > clientWidth
           THEN writeX = pagePaddingX /\ writeY = end.y + lineHeight
           ELSE writeX = x /\ writeY = end.y

-----------------------------------------------------------------------------
(* C16 *)

\* The last call was an inline addText that wrapped its remainder into lines.
WrappedInline == last.op = "addText" /\ Len(LastText.texts) >= 2

\* Every wrapped line is drawn at x = pagePaddingX, one lineHeight below the line
\* before it, or at the top margin of the page its pagination check appended.
WrappedLines(t, lineHeight) ==
    /\ \A j \in 2..Len(t.draws) :
          /\ t.draws[j].x = pagePaddingX
          /\ t.draws[j].top = IF Appended(t.checks[j]) THEN pagePaddingY
                               ELSE t.draws[j - 1].top + lineHeight
    /\ (t.pdfPages = last.call.before.pdfPages
          => t.draws[Len(t.draws)].top = t.draws[1].top + (Len(t.draws) - 1) * lineHeight)

\* C16 as claimed: an inline addText that wraps its remainder into k >= 1 lines
\* advances writeY by lineHeight per line (apart from pagination resets), draws
\* each at x = pagePaddingX, and returns with writeX = pagePaddingX + the measured
\* width of the last wrapped line and writeY still on that line.
C16_Original ==
    WrappedInline =>
        LET t == LastText
            fs == LastOptions.fontSize
            k == Len(t.texts) - 1
        IN /\ WrappedLines(t, getLineHeight(fs))
           /\ writeX = pagePaddingX + getTextWidth(t.texts[k + 1], fs)
           /\ writeY = t.draws[k + 1].top

\* C16, amended: the wrapped lines as claimed; on return the right margin has been
\* added: either writeX = pagePaddingX + the measured width of the last wrapped
\* line + right with writeY still on that line, which is the case whenever that x
\* is at most clientWidth, or the cursor has been wrapped once more, to
\* writeX = pagePaddingX one lineHeight below the last line, which is the case
\* whenever that x exceeds clientWidth + pageIndex.
C16_WrappedLines ==
    WrappedInline =>
        LET t == LastText
            fs == LastOptions.fontSize
            lineHeight == getLineHeight(fs)
            k == Len(t.texts) - 1
            x == pagePaddingX + getTextWidth(t.texts[k + 1], fs) + LastOptions.right
            y == t.draws[k + 1].top
            onLine == writeX = x /\ writeY = y
            below == writeX = pagePaddingX /\ writeY = y + lineHeight
        IN /\ WrappedLines(t, lineHeight)
           /\ onLine \/ below
           /\ (x <= clientWidth => onLine)
           /\ (x > clientWidth + Mm(pageIndex) => below)

\* An inline text wrapped into two lines or more and left the cursor at the end of
\* the last one.
C16_Witness ==
    /\ WrappedInline
    /\ LET t == LastText
           k == Len(t.texts) - 1
       IN /\ k >= 2
          /\ getTextWidth(t.texts[k + 1], LastOptions.fontSize) > 0
          /\ writeX = pagePaddingX + getTextWidth(t.texts[k + 1], LastOptions.fontSize)
          /\ writeY = t.draws[k + 1].top

-----------------------------------------------------------------------------
(* C17 *)

\* addText('') makes exactly one pagination check, for lineHeight, and one drawing
\* call, of the empty string, and hands nothing to the splitter; in article mode
\* it ends at the left margin, one lineHeight below the writeY the check left.
EmptyTextCall(t, lineHeight) ==
    /\ Len(t.checks) = 1 /\ t.checks[1].h = lineHeight
    /\ t.texts = << <<>> >> /\ Len(t.draws) = 1 /\ t.draws[1].w = 0
    /\ t.handed = <<>>
    /\ (LastOptions.article =>
           /\ writeX = pagePaddingX
           /\ writeY = t.checks[1].after.writeY + lineHeight)

\* C17 as claimed: addText('') still runs one pagination check for lineHeight and
\* one render call with an empty first line; inline with right = 0 it leaves
\* writeX unchanged and changes writeY only if that check paginates; in article
\* mode it additionally ends with a line break that advances writeY by lineHeight.
C17_Original ==
    (IsText /\ last.call.text = <<>>) =>
        LET t == LastText
            before == last.call.before
        IN /\ EmptyTextCall(t, getLineHeight(LastOptions.fontSize))
           /\ (~LastOptions.article /\ LastOptions.right = 0 =>
                  /\ writeX = before.writeX
                  /\ writeY = (IF Appended(t.checks[1]) THEN pagePaddingY ELSE before.writeY))

\* C17, amended: the check, the render call and article mode as claimed; inline
\* with right = 0 the call either leaves writeX unchanged and changes writeY only
\* if the check paginates, which is the case whenever writeX is at most
\* clientWidth, or it wraps the cursor to writeX = pagePaddingX one lineHeight
\* below the writeY the check left, which is the case whenever writeX exceeds
\* clientWidth + pageIndex.
C17_EmptyText ==
    (IsText /\ last.call.text = <<>>) =>
        LET t == LastText
            x == last.call.before.writeX
            y == t.checks[1].after.writeY
            lineHeight == getLineHeight(LastOptions.fontSize)
            same == /\ writeX = x
                    /\ writeY = (IF Appended(t.checks[1]) THEN pagePaddingY
                                  ELSE last.call.before.writeY)
            below == writeX = pagePaddingX /\ writeY = y + lineHeight
        IN /\ EmptyTextCall(t, lineHeight)
           /\ (~LastOptions.article /\ LastOptions.right = 0 =>
                  /\ same \/ below
                  /\ (x <= clientWidth => same)
                  /\ (x > clientWidth + Mm(pageIndex) => below))

\* The empty string was added inline, with right = 0, inside a line.
C17_Witness ==
    /\ last.op = "addText" /\ last.call.text = <<>> /\ LastOptions.right = 0
    /\ last.call.before.writeX # pagePaddingX
    /\ writeX = last.call.before.writeX /\ last.drawn = 1

-----------------------------------------------------------------------------
(* C18 *)

\* C18: between calls pageIndex is the number of pages of the jsPDF document and
\* the page selected in jsPDF is the last one; every call leaves it so, and every
\* element a call draws goes onto the page that is the last one at that moment,
\* never onto an earlier page than the element before it.
C18_LastPageSelected ==
    /\ pageIndex = pdfPages /\ pdfPage = pdfPages
    /\ \A t \in AllCalls :
          /\ t.pageIndex = t.pdfPages /\ t.pdfPage = t.pdfPages
          /\ \A j \in 1..Len(t.draws) :
                LET d == t.draws[j]
                IN /\ d.page = t.checks[d.nchecks].after.pdfPages
                   /\ d.page = d.pageIndex
                   /\ d.page >= pdfPages
                   /\ (j > 1 => d.page >= t.draws[j - 1].page)

\* Two pages were added, and the last call drew on the third.
C18_Witness == pageIndex = 3 /\ pdfPages = 3 /\ pdfPage = 3 /\ last.added = 1 /\ last.drawn >= 1

-----------------------------------------------------------------------------
(* C19 *)

\* The first-line fragment of a text call ends at or left of pageWidth - pagePaddingX,
\* and is empty when the remaining width is zero or negative.
FirstLineWithin(t) ==
    LET remainWidth == clientWidth - t.draws[1].x - LastOptions.left - pagePaddingX
    IN /\ t.draws[1].x + t.draws[1].w <= pageWidth - pagePaddingX
       /\ (remainWidth <= 0 => t.texts[1] = <<>>)

\* Every wrapped line of a text call is drawn from pagePaddingX and is at most
\* clientWidth wide.
WrappedWithin(t) ==
    \A j \in 2..Len(t.draws) : t.draws[j].x = pagePaddingX /\ t.draws[j].w <= clientWidth

\* C19: no text drawn by addText extends to the right of pageWidth - pagePaddingX:
\* the first-line fragment is drawn with draw X + measured width
\* <= pageWidth - pagePaddingX (an empty fragment when the remaining width is zero
\* or negative), and every wrapped line from pagePaddingX with a measured width of
\* at most clientWidth.
C19_TextWithinMargins == IsText => FirstLineWithin(LastText) /\ WrappedWithin(LastText)

====
